---- MODULE Spec2Model ----
(***************************************************************************)
(* Model of the schema-driven transliterator of src/src/lib.rs.            *)
(*                                                                         *)
(* A Rust String is a sequence of one-character strings; Option<T> is the  *)
(* empty sequence (None) or a one-element sequence (Some(v)); a            *)
(* HashMap<String, String> is a function from its keys to its values.      *)
(***************************************************************************)
EXTENDS Integers, Sequences, FiniteSets, TLC

VARIABLES schema, input, pc, segments, seg_idx, seg_out, word_by_letters,
          ending, word_for_parse, window, units, out

vars == <<schema, input, pc, segments, seg_idx, seg_out, word_by_letters,
          ending, word_for_parse, window, units, out>>

\* Longest input string explored.
MaxLen == 3

DUMMY_SYMBOL == "$"

None == <<>>

Some(v) == <<v>>

(***************************************************************************)
(* Characters.  CasePairs lists <<lowercase, uppercase>> of every cased    *)
(* character used; every other character is caseless.  "$" and "-" are    *)
(* the non-word characters of the alphabet.                                *)
(***************************************************************************)
CasePairs ==
    { <<"a", "A">>, <<"b", "B">>, <<"x", "X">>, <<"y", "Y">>, <<"z", "Z">> }

SourceChars == {"a", "A", "b", "$", "-"}

NonWordChars == {"$", "-"}

is_uppercase(c) == \E p \in CasePairs : p[2] = c

char_to_uppercase(c) ==
    IF \E p \in CasePairs : p[1] = c
    THEN (CHOOSE p \in CasePairs : p[1] = c)[2]
    ELSE c

char_to_lowercase(c) ==
    IF \E p \in CasePairs : p[2] = c
    THEN (CHOOSE p \in CasePairs : p[2] = c)[1]
    ELSE c

to_uppercase(s) == [i \in 1..Len(s) |-> char_to_uppercase(s[i])]

to_lowercase(s) == [i \in 1..Len(s) |-> char_to_lowercase(s[i])]

\* str::replace(DUMMY_SYMBOL, ""): every occurrence of the marker is removed.
replace_dummy(s) == SelectSeq(s, LAMBDA c : c # DUMMY_SYMBOL)

\* \w of the regex crate: letters are word characters, "$" and "-" are not.
is_word_char(c) == c \notin NonWordChars

RECURSIVE concat(_)
\* [String]::concat and the collect::<String>() of an iterator of Strings.
concat(ss) == IF ss = <<>> THEN <<>> ELSE Head(ss) \o concat(Tail(ss))

(***************************************************************************)
(* Schema lookups.                                                         *)
(***************************************************************************)
TableGet(table, key) ==
    IF table = None THEN None
    ELSE IF key \in DOMAIN table[1] THEN Some(table[1][key]) ELSE None

get_letter_exact(sch, s) == TableGet(sch.mapping, s)

first_char(s) == IF s = <<>> THEN <<>> ELSE <<Head(s)>>

get_next_first_char(sch, s) ==
    TableGet(sch.next_mapping, to_lowercase(replace_dummy(first_char(s))))

get_pref(sch, s) == TableGet(sch.prev_mapping, to_lowercase(replace_dummy(s)))

get_next(sch, s) == TableGet(sch.next_mapping, to_lowercase(replace_dummy(s)))

get_letter(sch, s) == TableGet(sch.mapping, to_lowercase(s))

get_ending(sch, s) == TableGet(sch.ending_mapping, to_lowercase(s))

(***************************************************************************)
(* Case propagation.                                                       *)
(***************************************************************************)
propagate_case_whole_always(result, source_letter, only_first_symbol) ==
    IF ~ \E i \in 1..Len(source_letter) : is_uppercase(source_letter[i])
    THEN result
    ELSE to_uppercase(result)

propagate_case_from_source(result, source_letter, only_first_symbol) ==
    LET letter_upper ==
            \E i \in 1..Len(source_letter) : is_uppercase(source_letter[i])
    IN  IF ~letter_upper THEN result
        ELSE IF only_first_symbol
             THEN IF result = <<>> THEN <<>>
                  ELSE <<char_to_uppercase(Head(result))>> \o Tail(result)
             ELSE to_uppercase(result)

(***************************************************************************)
(* parse_letter: one window of three characters.                           *)
(***************************************************************************)
parse_letter_postfix_last(letter_with_neighbors, sch) ==
    LET prefix  == SubSeq(letter_with_neighbors, 1, 2)
        postfix == SubSeq(letter_with_neighbors, 2, 3)
        letter  == SubSeq(letter_with_neighbors, 2, 2)
        r1 == IF get_letter(sch, letter) # None
              THEN get_letter(sch, letter)[1] ELSE letter
        r2 == IF get_pref(sch, prefix) # None
              THEN get_pref(sch, prefix)[1] ELSE r1
        r3 == IF get_next(sch, postfix) # None
              THEN get_next(sch, postfix)[1] ELSE r2
    IN  propagate_case_from_source(r3, letter, TRUE)

parse_letter(letter_with_neighbors, sch) ==
    LET prefix  == SubSeq(letter_with_neighbors, 1, 2)
        postfix == SubSeq(letter_with_neighbors, 2, 3)
        letter  == SubSeq(letter_with_neighbors, 2, 2)
        r0 == letter
        r1 == IF get_letter(sch, letter) # None
              THEN get_letter(sch, letter)[1] ELSE r0
        r2 == IF get_next(sch, postfix) # None
              THEN get_next(sch, postfix)[1] ELSE r1
        r3 == IF get_pref(sch, prefix) # None
              THEN get_pref(sch, prefix)[1] ELSE r2
    IN  propagate_case_from_source(r3, letter, TRUE)

(***************************************************************************)
(* parse_ending: Some([translate, ending_start]) or None.  ending_start is *)
(* the 0-based index of the code, i.e. the number of body characters.      *)
(***************************************************************************)
Tail1(s) == SubSeq(s, Len(s), Len(s))

Tail2(s) == SubSeq(s, Len(s) - 1, Len(s))

parse_ending_longest_first(s, sch) ==
    LET length == Len(s)
    IN  IF length < 3 THEN None
        ELSE IF get_ending(sch, Tail2(s)) # None
        THEN Some([translate |-> propagate_case_from_source(
                                     get_ending(sch, Tail2(s))[1], Tail2(s), FALSE),
                   ending_start |-> length - 2])
        ELSE IF get_ending(sch, Tail1(s)) # None
        THEN Some([translate |-> propagate_case_from_source(
                                     get_ending(sch, Tail1(s))[1], Tail1(s), FALSE),
                   ending_start |-> length - 1])
        ELSE None

parse_ending_case_of_word(s, sch) ==
    LET length == Len(s)
    IN  IF length < 3 THEN None
        ELSE IF get_ending(sch, Tail1(s)) # None
        THEN Some([translate |-> propagate_case_from_source(
                                     get_ending(sch, Tail1(s))[1], s, FALSE),
                   ending_start |-> length - 1])
        ELSE IF get_ending(sch, Tail2(s)) # None
        THEN Some([translate |-> propagate_case_from_source(
                                     get_ending(sch, Tail2(s))[1], s, FALSE),
                   ending_start |-> length - 2])
        ELSE None

parse_ending_any_length(s, sch) ==
    LET length == Len(s)
    IN  IF length < 1 THEN None
        ELSE IF get_ending(sch, Tail1(s)) # None
        THEN Some([translate |-> propagate_case_from_source(
                                     get_ending(sch, Tail1(s))[1], Tail1(s), FALSE),
                   ending_start |-> length - 1])
        ELSE IF length >= 2 /\ get_ending(sch, Tail2(s)) # None
        THEN Some([translate |-> propagate_case_from_source(
                                     get_ending(sch, Tail2(s))[1], Tail2(s), FALSE),
                   ending_start |-> length - 2])
        ELSE None

parse_ending(s, sch) ==
    LET length == Len(s)
    IN  IF length < 3 THEN None
        ELSE IF get_ending(sch, Tail1(s)) # None
        THEN Some([translate |-> propagate_case_from_source(
                                     get_ending(sch, Tail1(s))[1], Tail1(s), FALSE),
                   ending_start |-> length - 1])
        ELSE IF get_ending(sch, Tail2(s)) # None
        THEN Some([translate |-> propagate_case_from_source(
                                     get_ending(sch, Tail2(s))[1], Tail2(s), FALSE),
                   ending_start |-> length - 2])
        ELSE None

(***************************************************************************)
(* Regex::new(r"\b").split(s): a match at every position where exactly one *)
(* of the two neighbouring characters is a word character (the outside of  *)
(* the string counts as non-word); the pieces between consecutive matches, *)
(* the one before the first match and the one after the last are yielded,  *)
(* empty ones included.                                                    *)
(***************************************************************************)
IsWordAt(s, p) == p >= 1 /\ p <= Len(s) /\ is_word_char(s[p])

IsBoundary(s, p) == IsWordAt(s, p) # IsWordAt(s, p + 1)

RECURSIVE SplitFrom(_, _, _)
SplitFrom(s, last, p) ==
    IF p > Len(s) THEN << SubSeq(s, last + 1, Len(s)) >>
    ELSE IF IsBoundary(s, p)
         THEN << SubSeq(s, last + 1, p) >> \o SplitFrom(s, p, p + 1)
         ELSE SplitFrom(s, last, p + 1)

RECURSIVE SplitWordStartsOnly(_, _, _)
SplitWordStartsOnly(s, last, p) ==
    IF p > Len(s) THEN << SubSeq(s, last + 1, Len(s)) >>
    ELSE IF ~IsWordAt(s, p) /\ IsWordAt(s, p + 1)
         THEN << SubSeq(s, last + 1, p) >> \o SplitWordStartsOnly(s, p, p + 1)
         ELSE SplitWordStartsOnly(s, last, p + 1)

re_split_word_starts(s) == SplitWordStartsOnly(s, 0, 0)

re_split(s) == SplitFrom(s, 0, 0)

\* <[String]>::windows(3): every run of 3 consecutive elements, none when
\* the slice is shorter than 3.
windows_skip_last(v) ==
    [i \in 1..(IF Len(v) >= 4 THEN Len(v) - 3 ELSE 0) |-> SubSeq(v, i, i + 2)]

windows3(v) ==
    [i \in 1..(IF Len(v) >= 3 THEN Len(v) - 2 ELSE 0) |-> SubSeq(v, i, i + 2)]

\* The body between two boundary markers.
pad(word_without_ending) ==
    <<DUMMY_SYMBOL>> \o word_without_ending \o <<DUMMY_SYMBOL>>

word_without_ending_of(w, e) ==
    IF e = None THEN w ELSE SubSeq(w, 1, e[1].ending_start)

parsed_end_of(e) == IF e = None THEN <<>> ELSE e[1].translate

\* parse_word_by_schema as a function of one segment.
parse_word_by_schema(s, sch) ==
    LET e == parse_ending(s, sch)
        w == windows3(pad(word_without_ending_of(s, e)))
    IN  concat([i \in 1..Len(w) |-> parse_letter(w[i], sch)]) \o parsed_end_of(e)

(***************************************************************************)
(* Schemas explored.  Every table is absent, or one of a few maps; keys    *)
(* and replacements are arbitrary strings, as serde accepts them.          *)
(***************************************************************************)
Str1(a) == <<a>>

Str2(a, b) == <<a, b>>

Mappings ==
    { None,
      Some(Str1("a") :> Str1("x") @@ Str1("b") :> Str2("y", "Z")),
      Some(Str1("A") :> Str1("z")) }

PrevMappings ==
    { None,
      Some(Str1("a") :> Str2("y", "x") @@ Str2("b", "a") :> Str1("z")),
      Some(<<>> :> Str2("z", "z")) }

NextMappings ==
    { None,
      Some(Str1("a") :> Str2("x", "x") @@ Str2("a", "b") :> <<>>),
      Some(<<>>) }

EndingMappings ==
    { None,
      Some(Str1("b") :> Str1("x") @@ Str2("a", "b") :> Str2("y", "z")
           @@ Str1("a") :> Str2("z", "y")),
      Some(Str2("a", "b") :> Str2("y", "z") @@ Str2("b", "a") :> Str1("z")) }

Schemas ==
    [mapping : Mappings, prev_mapping : PrevMappings,
     next_mapping : NextMappings, ending_mapping : EndingMappings]

Inputs == UNION { [1..n -> SourceChars] : n \in 0..MaxLen }

(***************************************************************************)
(* The state machine: parse_by_schema(input, schema), one step per call.   *)
(***************************************************************************)
Init ==
    /\ schema \in Schemas
    /\ input \in Inputs
    /\ pc = "start"
    /\ segments = <<>>
    /\ seg_idx = 0
    /\ seg_out = <<>>
    /\ word_by_letters = <<>>
    /\ ending = None
    /\ word_for_parse = <<>>
    /\ window = <<>>
    /\ units = <<>>
    /\ out = <<>>

\* RE.split(s)
Split ==
    /\ pc = "start"
    /\ segments' = re_split(input)
    /\ seg_idx' = 1
    /\ pc' = "word"
    /\ UNCHANGED <<schema, input, seg_out, word_by_letters, ending,
                   word_for_parse, window, units, out>>

\* parse_word_by_schema up to the padded body
ParseEnding ==
    /\ pc = "word"
    /\ seg_idx <= Len(segments)
    /\ LET w == segments[seg_idx]
           e == parse_ending(w, schema)
       IN  /\ word_by_letters' = w
           /\ ending' = e
           /\ word_for_parse' = pad(word_without_ending_of(w, e))
    /\ units' = <<>>
    /\ window' = <<>>
    /\ pc' = "letters"
    /\ UNCHANGED <<schema, input, segments, seg_idx, seg_out, out>>

\* one step of windows(3).map(parse_letter)
ParseLetter ==
    /\ pc = "letters"
    /\ Len(units) < Len(windows3(word_for_parse))
    /\ LET w == windows3(word_for_parse)[Len(units) + 1]
       IN  /\ window' = w
           /\ units' = Append(units, parse_letter(w, schema))
    /\ UNCHANGED <<schema, input, pc, segments, seg_idx, seg_out,
                   word_by_letters, ending, word_for_parse, out>>

\* format!("{}{}", parsed_word, parsed_end)
ConcatWord ==
    /\ pc = "letters"
    /\ Len(units) = Len(windows3(word_for_parse))
    /\ seg_out' = Append(seg_out, concat(units) \o parsed_end_of(ending))
    /\ seg_idx' = seg_idx + 1
    /\ pc' = "word"
    /\ UNCHANGED <<schema, input, segments, word_by_letters, ending,
                   word_for_parse, window, units, out>>

\* .collect() of parse_by_schema
Collect ==
    /\ pc = "word"
    /\ seg_idx > Len(segments)
    /\ out' = concat(seg_out)
    /\ pc' = "done"
    /\ UNCHANGED <<schema, input, segments, seg_idx, seg_out, word_by_letters,
                   ending, word_for_parse, window, units>>

Next == Split \/ ParseEnding \/ ParseLetter \/ ConcatWord \/ Collect

Spec == Init /\ [][Next]_vars

TypeOK ==
    /\ pc \in {"start", "word", "letters", "done"}
    /\ seg_idx \in 0..(MaxLen + 3)
    /\ Len(units) <= MaxLen

(***************************************************************************)
(* Vocabulary of the properties.                                           *)
(***************************************************************************)
\* A window has been transliterated; its unit is the last of units.
WindowDone == window # <<>>

LastUnit == units[Len(units)]

Prev == window[1]

Cur == window[2]

Nxt == window[3]

\* The stored replacement of a key of a table that is present.
HasKey(table, key) == table # None /\ key \in DOMAIN table[1]

Stored(table, key) == table[1][key]

\* The keys the three window lookups use for the current window.
PrefKey == to_lowercase(replace_dummy(<<Prev, Cur>>))

NextKey == to_lowercase(replace_dummy(<<Cur, Nxt>>))

LetterKey == <<char_to_lowercase(Cur)>>

\* The replacement chosen by strict priority, before case propagation.
Chosen ==
    IF HasKey(schema.prev_mapping, PrefKey)
    THEN Stored(schema.prev_mapping, PrefKey)
    ELSE IF HasKey(schema.next_mapping, NextKey)
    THEN Stored(schema.next_mapping, NextKey)
    ELSE IF HasKey(schema.mapping, LetterKey)
    THEN Stored(schema.mapping, LetterKey)
    ELSE <<Cur>>

\* The body of the current segment and the tail parse_ending peeled.
Body == SubSeq(word_for_parse, 2, Len(word_for_parse) - 1)

EndingDone == pc = "letters" \/ (pc \in {"word", "done"} /\ seg_out # <<>>)

PeeledTail ==
    SubSeq(word_by_letters, ending[1].ending_start + 1, Len(word_by_letters))

HasUpper(s) == \E i \in 1..Len(s) : is_uppercase(s[i])

AllUpper(s) == \A i \in 1..Len(s) : is_uppercase(s[i])

WordLen == Len(word_by_letters)

(***************************************************************************)
(* C1: for every window the replacement is chosen by strict priority       *)
(* prefix > postfix > single letter > identity; the emitted unit is that   *)
(* replacement with the case of cur propagated.                            *)
(***************************************************************************)
C1_Priority ==
    WindowDone =>
        LastUnit = propagate_case_from_source(Chosen, <<Cur>>, TRUE)

\* cur has an entry in all three tables, with three different replacements,
\* and the prefix rule's replacement was emitted.
C1_Witness ==
    /\ WindowDone
    /\ HasKey(schema.prev_mapping, PrefKey)
    /\ HasKey(schema.next_mapping, NextKey)
    /\ HasKey(schema.mapping, LetterKey)
    /\ Stored(schema.prev_mapping, PrefKey) # Stored(schema.next_mapping, NextKey)
    /\ Stored(schema.prev_mapping, PrefKey) # Stored(schema.mapping, LetterKey)
    /\ ~is_uppercase(Cur)
    /\ LastUnit = Stored(schema.prev_mapping, PrefKey)

(***************************************************************************)
(* C2: on a segment of at least 3 characters whose last character and last *)
(* two characters both match ending rules, the 1-character rule is chosen: *)
(* ending_start = length - 1 and the body is all but the last character.   *)
(* The 2-character rule is chosen only when the 1-character lookup fails;  *)
(* when neither matches the whole segment is the body.                     *)
(***************************************************************************)
Key1 == to_lowercase(Tail1(word_by_letters))

Key2 == to_lowercase(Tail2(word_by_letters))

C2_EndingOrder ==
    (EndingDone /\ WordLen >= 3) =>
        /\ HasKey(schema.ending_mapping, Key1) =>
              /\ ending # None
              /\ ending[1].ending_start = WordLen - 1
              /\ to_lowercase(ending[1].translate)
                    = to_lowercase(Stored(schema.ending_mapping, Key1))
              /\ Body = SubSeq(word_by_letters, 1, WordLen - 1)
        /\ (ending # None /\ ending[1].ending_start = WordLen - 2) =>
              /\ ~HasKey(schema.ending_mapping, Key1)
              /\ HasKey(schema.ending_mapping, Key2)
              /\ to_lowercase(ending[1].translate)
                    = to_lowercase(Stored(schema.ending_mapping, Key2))
              /\ Body = SubSeq(word_by_letters, 1, WordLen - 2)
        /\ (~HasKey(schema.ending_mapping, Key1)
              /\ ~HasKey(schema.ending_mapping, Key2)) =>
              /\ ending = None
              /\ Body = word_by_letters

\* Both rules match the same tail, with different replacements.
C2_Witness ==
    /\ EndingDone
    /\ WordLen >= 3
    /\ HasKey(schema.ending_mapping, Key1)
    /\ HasKey(schema.ending_mapping, Key2)
    /\ Stored(schema.ending_mapping, Key1) # Stored(schema.ending_mapping, Key2)
    /\ ending # None
    /\ ending[1].ending_start = WordLen - 1

(***************************************************************************)
(* C3: first-symbol-only case propagation.  When cur is uppercase the unit *)
(* is the chosen replacement with its first character uppercased and the   *)
(* rest exactly as stored; otherwise the unit is the chosen replacement    *)
(* itself.  An empty replacement stays empty.                              *)
(***************************************************************************)
C3_FirstSymbolCase ==
    WindowDone =>
        IF is_uppercase(Cur)
        THEN /\ Len(LastUnit) = Len(Chosen)
             /\ \A i \in 1..Len(Chosen) :
                    LastUnit[i] = IF i = 1 THEN char_to_uppercase(Chosen[1])
                                  ELSE Chosen[i]
        ELSE LastUnit = Chosen

\* An uppercase cur got a multi-character replacement of which only the
\* first character was uppercased.
C3_Witness ==
    /\ WindowDone
    /\ is_uppercase(Cur)
    /\ Len(Chosen) >= 2
    /\ LastUnit[1] # Chosen[1]
    /\ LastUnit[2] = Chosen[2]
    /\ ~is_uppercase(LastUnit[2])

(***************************************************************************)
(* C4: whole-string case propagation of endings.  The emitted ending is    *)
(* the stored replacement fully uppercased when the matched tail (not the  *)
(* body) holds an uppercase character, and the stored replacement itself   *)
(* otherwise.                                                              *)
(***************************************************************************)
C4_WholeCase ==
    (EndingDone /\ ending # None) =>
        LET stored == Stored(schema.ending_mapping, to_lowercase(PeeledTail))
        IN  ending[1].translate =
                IF HasUpper(PeeledTail) THEN to_uppercase(stored) ELSE stored

\* An all-uppercase word whose ending rule fired with a replacement of two
\* characters, both emitted uppercase.
C4_Witness ==
    /\ EndingDone
    /\ ending # None
    /\ AllUpper(word_by_letters)
    /\ Len(ending[1].translate) >= 2
    /\ AllUpper(ending[1].translate)

(***************************************************************************)
(* C5: a character with no entry in any of the four tables (an absent      *)
(* table has no entry), transliterated as a segment of its own, is         *)
(* returned unchanged.                                                     *)
(***************************************************************************)
NoEntry(c) ==
    /\ ~HasKey(schema.mapping, <<char_to_lowercase(c)>>)
    /\ ~HasKey(schema.prev_mapping, <<char_to_lowercase(c)>>)
    /\ ~HasKey(schema.next_mapping, <<char_to_lowercase(c)>>)
    /\ ~HasKey(schema.ending_mapping, <<char_to_lowercase(c)>>)

C5_IdentityFallback ==
    (pc = "done" /\ Len(input) = 1 /\ NoEntry(input[1])) => out = input

(***************************************************************************)
(* C6: the input is split at every transition between word and non-word    *)
(* characters into segments that concatenate back to the input; every      *)
(* segment is transliterated on its own and the results are concatenated   *)
(* in order.                                                               *)
(***************************************************************************)
Homogeneous(s) ==
    \A i, j \in 1..Len(s) : is_word_char(s[i]) = is_word_char(s[j])

C6_Segmentation ==
    pc = "done" =>
        /\ concat(segments) = input
        /\ \A i \in 1..Len(segments) : Homogeneous(segments[i])
        /\ \A i \in 1..(Len(segments) - 1) :
              (segments[i] # <<>> /\ segments[i + 1] # <<>>) =>
                  is_word_char(segments[i][1]) # is_word_char(segments[i + 1][1])
        /\ Len(seg_out) = Len(segments)
        /\ \A i \in 1..Len(segments) :
              seg_out[i] = parse_word_by_schema(segments[i], schema)
        /\ out = concat(seg_out)

\* An input of a word, a separator and a word, transliterated.
C6_Witness ==
    /\ pc = "done"
    /\ Len(input) = 3
    /\ is_word_char(input[1])
    /\ ~is_word_char(input[2])
    /\ is_word_char(input[3])
    /\ out # input

(***************************************************************************)
(* C7 as stated: each lookup matches a table key whenever the lowercased   *)
(* forms of the query and of the key are equal.                            *)
(***************************************************************************)
MatchesAnyCase(table, result, query) ==
    table # None =>
        \A k \in DOMAIN table[1] :
            to_lowercase(k) = to_lowercase(query) => result = Some(table[1][k])

C7_CaseInsensitiveKeys ==
    WindowDone =>
        /\ MatchesAnyCase(schema.mapping, get_letter(schema, <<Cur>>), <<Cur>>)
        /\ MatchesAnyCase(schema.prev_mapping,
                          get_pref(schema, <<Prev, Cur>>), <<Prev, Cur>>)
        /\ MatchesAnyCase(schema.next_mapping,
                          get_next(schema, <<Cur, Nxt>>), <<Cur, Nxt>>)
        /\ MatchesAnyCase(schema.ending_mapping,
                          get_ending(schema, <<Cur>>), <<Cur>>)

(***************************************************************************)
(* C7 as amended: each lookup lowercases the query (and strips the marker  *)
(* for prefix and postfix) and matches a key exactly when the result       *)
(* equals the key as stored; the stored replacement is returned verbatim,  *)
(* and queries that differ only in letter case get the same answer.        *)
(***************************************************************************)
CharVariants(c) == {c, char_to_lowercase(c), char_to_uppercase(c)}

\* The strings that differ from q in letter case only.
CaseVariants(q) ==
    { v \in [1..Len(q) -> UNION { CharVariants(q[i]) : i \in 1..Len(q) }] :
          \A i \in 1..Len(q) : v[i] \in CharVariants(q[i]) }

MatchesStored(table, result, key) ==
    result = IF HasKey(table, key) THEN Some(Stored(table, key)) ELSE None

C7_QueryLowercased ==
    WindowDone =>
        /\ \A v \in CaseVariants(<<Cur>>) :
              /\ MatchesStored(schema.mapping, get_letter(schema, v), LetterKey)
              /\ MatchesStored(schema.ending_mapping, get_ending(schema, v),
                               LetterKey)
        /\ \A v \in CaseVariants(<<Prev, Cur>>) :
              /\ MatchesStored(schema.prev_mapping, get_pref(schema, v), PrefKey)
              /\ MatchesStored(schema.ending_mapping, get_ending(schema, v),
                               to_lowercase(<<Prev, Cur>>))
        /\ \A v \in CaseVariants(<<Cur, Nxt>>) :
              MatchesStored(schema.next_mapping, get_next(schema, v), NextKey)

\* An uppercase cur whose letter lookup matched the lowercase key.
C7_Witness ==
    /\ WindowDone
    /\ is_uppercase(Cur)
    /\ get_letter(schema, <<Cur>>) # None
    /\ get_letter(schema, <<Cur>>) = get_letter(schema, <<char_to_lowercase(Cur)>>)

(***************************************************************************)
(* C8: segments of fewer than 3 characters never get an ending, even when  *)
(* their tail is a key of ending_mapping, and are transliterated whole by  *)
(* the window rules; for 3 characters or more the peeled tail lies inside  *)
(* the segment and leaves a body of at least 1 character.                  *)
(***************************************************************************)
C8_MinLength ==
    EndingDone =>
        /\ WordLen < 3 => (ending = None /\ Body = word_by_letters)
        /\ ending # None =>
              /\ WordLen >= 3
              /\ ending[1].ending_start \in {WordLen - 1, WordLen - 2}
              /\ ending[1].ending_start >= 1
              /\ Len(Body) = ending[1].ending_start

\* A 2-character segment whose tail is an ending key, transliterated by
\* two windows and no ending.
C8_Witness ==
    /\ pc = "word"
    /\ seg_out # <<>>
    /\ WordLen = 2
    /\ HasKey(schema.ending_mapping, Key2)
    /\ HasKey(schema.ending_mapping, Key1)
    /\ ending = None
    /\ Len(units) = 2

(***************************************************************************)
(* C9 as stated: a 1-character prev_mapping key is matched only against    *)
(* the first character of a segment and a 1-character next_mapping key     *)
(* only against the last character of a segment.                           *)
(***************************************************************************)
\* The lookup answered with the replacement of a 1-character key.
OneCharMatch(table, result) ==
    /\ result # None
    /\ \E k \in DOMAIN table[1] : Len(k) = 1 /\ table[1][k] = result[1]

PrefOneChar == OneCharMatch(schema.prev_mapping, get_pref(schema, <<Prev, Cur>>))

NextOneChar == OneCharMatch(schema.next_mapping, get_next(schema, <<Cur, Nxt>>))

\* The 1-based position in the segment of the character just transliterated.
Pos == Len(units)

C9_SegmentEdgesOnly ==
    WindowDone =>
        /\ PrefOneChar => Pos = 1
        /\ NextOneChar => Pos = WordLen

(***************************************************************************)
(* C9 as amended: a 1-character key is matched only where the window       *)
(* neighbour on that side is the marker character: at the first            *)
(* (prefix) or last (postfix) character of the segment body, the last body *)
(* character being the one before the peeled ending when an ending was     *)
(* peeled, or next to a "$" of the text itself.                            *)
(***************************************************************************)
C9_BodyEdgesOnly ==
    WindowDone =>
        /\ PrefOneChar =>
              \/ Pos = 1
              \/ DUMMY_SYMBOL \in {word_by_letters[Pos - 1], word_by_letters[Pos]}
        /\ NextOneChar =>
              \/ Pos = Len(Body)
              \/ DUMMY_SYMBOL \in {word_by_letters[Pos], word_by_letters[Pos + 1]}

\* The last body character before a peeled ending matched a 1-character
\* postfix key.
C9_Witness ==
    /\ WindowDone
    /\ ending # None
    /\ Pos = Len(Body)
    /\ Pos < WordLen
    /\ NextOneChar
    /\ LastUnit = get_next(schema, <<Cur, Nxt>>)[1]

(***************************************************************************)
(* C10: one unit per body character, the i-th computed from the body       *)
(* characters i-1, i, i+1 with the marker at both edges; the segment's     *)
(* output is the units in order followed by the ending, if any.            *)
(***************************************************************************)
Neighbour(body, j) ==
    IF j < 1 \/ j > Len(body) THEN DUMMY_SYMBOL ELSE body[j]

BodyOfWord == word_without_ending_of(word_by_letters, ending)

C10_OneUnitPerChar ==
    EndingDone =>
        /\ Len(units) <= Len(BodyOfWord)
        /\ \A i \in 1..Len(units) :
              units[i] = parse_letter(<<Neighbour(BodyOfWord, i - 1),
                                        BodyOfWord[i],
                                        Neighbour(BodyOfWord, i + 1)>>, schema)
        /\ (pc \in {"word", "done"}) =>
              /\ Len(units) = Len(BodyOfWord)
              /\ seg_out[Len(seg_out)]
                    = concat(units) \o (IF ending = None THEN <<>>
                                        ELSE ending[1].translate)
              /\ (BodyOfWord = <<>> /\ ending = None) =>
                    seg_out[Len(seg_out)] = <<>>

\* A segment of three characters with a peeled ending: two units and the
\* ending make up its output.
C10_Witness ==
    /\ pc = "word"
    /\ seg_out # <<>>
    /\ WordLen = 3
    /\ ending # None
    /\ Len(units) = 2
    /\ ending[1].translate # <<>>
    /\ seg_out[Len(seg_out)] = units[1] \o units[2] \o ending[1].translate
====
